---- MODULE Spec2Model ----
(***************************************************************************)
(* Filter statistics propagation of the optimizer:                         *)
(*   src/src/optimizer/statistics/operator/propagate_filter.cpp            *)
(*                                                                         *)
(* StatisticsPropagator::PropagateStatistics(LogicalFilter &, node_ptr)    *)
(* is modelled as a state machine with one action per step of the          *)
(* function; the UpdateFilterStatistics overloads are operators on the     *)
(* statistics map, applied by the step that reaches line 240.              *)
(***************************************************************************)
EXTENDS Integers, Sequences, FiniteSets, TLC

(***************************************************************************)
(* Bounds of the explored inputs.                                          *)
(***************************************************************************)
\* numeric payloads of Values range over 0..MaxVal
MaxVal == 2
\* filters hold at most MaxPreds predicates
MaxPreds == 3

(***************************************************************************)
(* Typed scalar values (duckdb::Value): a logical type, a null flag and a  *)
(* payload.                                                                *)
(***************************************************************************)
Value(t, x) == [type |-> t, is_null |-> FALSE, v |-> x]

NullValue(t) == [type |-> t, is_null |-> TRUE, v |-> 0]

\* Value::BOOLEAN(b)
ValueBOOLEAN(b) == Value("BOOLEAN", IF b THEN 1 ELSE 0)

\* Value::IsNull
IsNull(val) == val.is_null

\* Value::operator== : NULL equals only NULL; otherwise the payloads decide
\* (numeric values of different types are compared after a cast).
ValueEquals(a, b) ==
    IF a.is_null /\ b.is_null THEN TRUE
    ELSE IF a.is_null # b.is_null THEN FALSE
    ELSE a.v = b.v

\* Value::operator< and Value::operator> on non-null numeric values
ValueLessThan(a, b) == a.v < b.v

ValueGreaterThan(a, b) == a.v > b.v

\* LogicalType::IsNumeric
IsNumeric(t) == t \in {"INTEGER", "BIGINT"}

(***************************************************************************)
(* Expressions.  class is GetExpressionClass(), type is Expression::type.  *)
(***************************************************************************)
\* ColumnBinding(table_index, column_index)
Bindings == {<<0, 0>>, <<0, 1>>}

ColumnRef(b) ==
    [class |-> "BOUND_COLUMN_REF", type |-> "BOUND_COLUMN_REF", binding |-> b]

Constant(val) ==
    [class |-> "BOUND_CONSTANT", type |-> "VALUE_CONSTANT", value |-> val]

\* a bound function call; for constant_or_null, value is the bound constant
Function(fname, val) ==
    [class |-> "BOUND_FUNCTION", type |-> "BOUND_FUNCTION",
     name |-> fname, value |-> val]

Comparison(l, r, t) ==
    [class |-> "BOUND_COMPARISON", type |-> t, left |-> l, right |-> r]

Between(in, lo, hi, li, ui) ==
    [class |-> "BOUND_BETWEEN", type |-> "COMPARE_BETWEEN",
     input |-> in, lower |-> lo, upper |-> hi,
     lower_inclusive |-> li, upper_inclusive |-> ui]

ComparisonTypes ==
    {"COMPARE_EQUAL", "COMPARE_NOTEQUAL", "COMPARE_LESSTHAN",
     "COMPARE_GREATERTHAN", "COMPARE_LESSTHANOREQUALTO",
     "COMPARE_GREATERTHANOREQUALTO"}

\* FlipComparisionExpression: the comparison with its operands swapped
FlipComparisionExpression(t) ==
    CASE t = "COMPARE_LESSTHAN" -> "COMPARE_GREATERTHAN"
      [] t = "COMPARE_GREATERTHAN" -> "COMPARE_LESSTHAN"
      [] t = "COMPARE_LESSTHANOREQUALTO" -> "COMPARE_GREATERTHANOREQUALTO"
      [] t = "COMPARE_GREATERTHANOREQUALTO" -> "COMPARE_LESSTHANOREQUALTO"
      [] OTHER -> t

\* BoundBetweenExpression::LowerComparisonType / UpperComparisonType
LowerComparisonType(b) ==
    IF b.lower_inclusive THEN "COMPARE_GREATERTHANOREQUALTO"
    ELSE "COMPARE_GREATERTHAN"

UpperComparisonType(b) ==
    IF b.upper_inclusive THEN "COMPARE_LESSTHANOREQUALTO"
    ELSE "COMPARE_LESSTHAN"

(***************************************************************************)
(* Statistics.  A BaseStatistics entry has a type and validity statistics  *)
(* (has_null); a NumericStatistics entry also has min and max Values.      *)
(* Non-numeric entries carry NULL placeholders that are never read.        *)
(***************************************************************************)
NumericStatistics(t, hn, lo, hi) ==
    [type |-> t, has_null |-> hn, min |-> lo, max |-> hi]

BaseStatistics(t, hn) ==
    [type |-> t, has_null |-> hn, min |-> NullValue(t), max |-> NullValue(t)]

\* NodeStatistics(estimated_cardinality, max_cardinality)
NodeStatistics(est, mx) ==
    [ptr |-> "set", has_estimated_cardinality |-> TRUE,
     estimated_cardinality |-> est,
     has_max_cardinality |-> TRUE, max_cardinality |-> mx]

\* a null unique_ptr<NodeStatistics>
NullNodeStatistics ==
    [ptr |-> "null", has_estimated_cardinality |-> FALSE,
     estimated_cardinality |-> 0,
     has_max_cardinality |-> FALSE, max_cardinality |-> 0]

(***************************************************************************)
(* Constant-fold oracle (lines 12-27).                                     *)
(***************************************************************************)
\* predicates are BOOLEAN, so the D_ASSERT of line 17 holds for them
ExpressionIsConstant(expr, val) ==
    IF expr.class # "BOUND_CONSTANT" THEN FALSE
    ELSE ValueEquals(expr.value, val)

\* ConstantOrNull::IsConstantOrNull(bound_function, val)
IsConstantOrNull(expr, val) ==
    expr.name = "constant_or_null" /\ ValueEquals(expr.value, val)

ExpressionIsConstantOrNull(expr, val) ==
    IF expr.class # "BOUND_FUNCTION" THEN FALSE
    ELSE IsConstantOrNull(expr, val)

(***************************************************************************)
(* Comparison range narrower (lines 29-207).  The statistics map is a      *)
(* function from the bindings that have an entry to their statistics.  A   *)
(* narrowing yields a set of outcomes [map, aborted]: more than one where  *)
(* the result depends on the build (D_ASSERT is checked only in debug      *)
(* builds).                                                                *)
(***************************************************************************)
Ok(map) == [map |-> map, aborted |-> FALSE]

Aborted(map) == [map |-> map, aborted |-> TRUE]

\* faulty variant: forgets to replace the validity statistics
SetStatisticsNotNull_Noop(map, binding) == map

SetStatisticsNotNull(map, binding) ==
    IF binding \notin DOMAIN map THEN map
    ELSE [map EXCEPT ![binding].has_null = FALSE]

LessThanTypes == {"COMPARE_LESSTHAN", "COMPARE_LESSTHANOREQUALTO"}

GreaterThanTypes == {"COMPARE_GREATERTHAN", "COMPARE_GREATERTHANOREQUALTO"}

\* faulty variant: X > constant writes max instead of min
UpdateFilterStatisticsConstant_WrongBound(stats, comparison_type, constant) ==
    LET s == [stats EXCEPT !.has_null = FALSE]
    IN  IF ~IsNumeric(s.type) THEN s
        ELSE IF IsNull(s.min) \/ IsNull(s.max) THEN s
        ELSE CASE comparison_type \in LessThanTypes ->
                    [s EXCEPT !.max = constant]
               [] comparison_type \in GreaterThanTypes ->
                    [s EXCEPT !.max = constant]
               [] comparison_type = "COMPARE_EQUAL" ->
                    [s EXCEPT !.min = constant, !.max = constant]
               [] OTHER -> s

\* faulty variant: only min is tested for NULL before narrowing
UpdateFilterStatisticsConstant_HalfNullCheck(stats, comparison_type, constant) ==
    LET s == [stats EXCEPT !.has_null = FALSE]
    IN  IF ~IsNumeric(s.type) THEN s
        ELSE IF IsNull(s.min) THEN s
        ELSE CASE comparison_type \in LessThanTypes ->
                    [s EXCEPT !.max = constant]
               [] comparison_type \in GreaterThanTypes ->
                    [s EXCEPT !.min = constant]
               [] comparison_type = "COMPARE_EQUAL" ->
                    [s EXCEPT !.min = constant, !.max = constant]
               [] OTHER -> s

\* UpdateFilterStatistics(BaseStatistics &, ExpressionType, const Value &)
UpdateFilterStatisticsConstant(stats, comparison_type, constant) ==
    LET s == [stats EXCEPT !.has_null = FALSE]
    IN  IF ~IsNumeric(s.type) THEN s
        ELSE IF IsNull(s.min) \/ IsNull(s.max) THEN s
        ELSE CASE comparison_type \in LessThanTypes ->
                    [s EXCEPT !.max = constant]
               [] comparison_type \in GreaterThanTypes ->
                    [s EXCEPT !.min = constant]
               [] comparison_type = "COMPARE_EQUAL" ->
                    [s EXCEPT !.min = constant, !.max = constant]
               [] OTHER -> s

\* faulty variant: left.max is capped by right.min instead of right.max
NarrowLessThan_WrongBound(m, l, r) ==
    LET a == IF ValueGreaterThan(m[l].max, m[r].min)
             THEN [m EXCEPT ![l].max = m[r].min] ELSE m
    IN  IF ValueLessThan(a[r].min, a[l].min)
        THEN [a EXCEPT ![r].min = a[l].min] ELSE a

\* LEFT < RIGHT or LEFT <= RIGHT (lines 99-107); l and r may be the same entry
NarrowLessThan(m, l, r) ==
    LET a == IF ValueGreaterThan(m[l].max, m[r].max)
             THEN [m EXCEPT ![l].max = m[r].max] ELSE m
    IN  IF ValueLessThan(a[r].min, a[l].min)
        THEN [a EXCEPT ![r].min = a[l].min] ELSE a

\* LEFT > RIGHT or LEFT >= RIGHT (lines 116-121)
NarrowGreaterThan(m, l, r) ==
    LET a == IF ValueGreaterThan(m[r].max, m[l].max)
             THEN [m EXCEPT ![r].max = m[l].max] ELSE m
    IN  IF ValueLessThan(a[l].min, a[r].min)
        THEN [a EXCEPT ![l].min = a[r].min] ELSE a

\* LEFT = RIGHT (lines 129-139)
NarrowEqual(m, l, r) ==
    LET a == IF ValueGreaterThan(m[l].min, m[r].min)
             THEN [m EXCEPT ![r].min = m[l].min]
             ELSE [m EXCEPT ![l].min = m[r].min]
    IN  IF ValueLessThan(a[l].max, a[r].max)
        THEN [a EXCEPT ![r].max = a[l].max]
        ELSE [a EXCEPT ![l].max = a[r].max]

\* lines 84-143: both entries read as NumericStatistics
NarrowNumericPair(m, l, r, comparison_type) ==
    IF IsNull(m[l].min) \/ IsNull(m[l].max)
       \/ IsNull(m[r].min) \/ IsNull(m[r].max) THEN m
    ELSE CASE comparison_type \in LessThanTypes -> NarrowLessThan(m, l, r)
           [] comparison_type \in GreaterThanTypes -> NarrowGreaterThan(m, l, r)
           [] comparison_type = "COMPARE_EQUAL" -> NarrowEqual(m, l, r)
           [] OTHER -> m

\* What a non-numeric right entry yields when line 85 reads it as
\* NumericStatistics: the cast is invalid, its min and max are arbitrary.
InvalidCastValues(t) == {NullValue(t)} \cup {Value(t, x) : x \in 0..MaxVal}

\* lines 80-143 once the assertion of line 79 is passed or compiled out
NarrowPairUnchecked(m, l, r, comparison_type) ==
    IF ~IsNumeric(m[l].type) THEN {m}
    ELSE IF IsNumeric(m[r].type) THEN {NarrowNumericPair(m, l, r, comparison_type)}
    ELSE {[NarrowNumericPair(
              [m EXCEPT ![r].min = gmin, ![r].max = gmax],
              l, r, comparison_type) EXCEPT ![r] = m[r]] :
            gmin \in InvalidCastValues(m[l].type),
            gmax \in InvalidCastValues(m[l].type)}

\* UpdateFilterStatistics(BaseStatistics &, BaseStatistics &, ExpressionType)
UpdateFilterStatisticsColumns(map, l, r, comparison_type) ==
    LET m == [map EXCEPT ![l].has_null = FALSE, ![r].has_null = FALSE]
    IN  IF m[l].type # m[r].type
        THEN \* D_ASSERT(lstats.type == rstats.type) fails: a debug build
             \* aborts, a release build carries on
             {Aborted(m)} \cup
             {Ok(n) : n \in NarrowPairUnchecked(m, l, r, comparison_type)}
        ELSE {Ok(n) : n \in NarrowPairUnchecked(m, l, r, comparison_type)}

\* lines 179-186: the column/constant case
UpdateFilterStatisticsColumnConstant(map, binding, comparison_type, constant) ==
    IF binding \notin DOMAIN map THEN {Ok(map)}
    ELSE {Ok([map EXCEPT ![binding] =
                UpdateFilterStatisticsConstant(map[binding], comparison_type,
                                               constant)])}

\* UpdateFilterStatistics(Expression &left, Expression &right, ExpressionType)
UpdateFilterStatisticsComparison(map, left, right, comparison_type) ==
    LET m1 == IF left.type = "BOUND_COLUMN_REF"
              THEN SetStatisticsNotNull(map, left.binding) ELSE map
        m2 == IF right.type = "BOUND_COLUMN_REF"
              THEN SetStatisticsNotNull(m1, right.binding) ELSE m1
    IN  IF left.type = "VALUE_CONSTANT" /\ right.type = "BOUND_COLUMN_REF"
        THEN UpdateFilterStatisticsColumnConstant(
                 m2, right.binding,
                 FlipComparisionExpression(comparison_type), left.value)
        ELSE IF left.type = "BOUND_COLUMN_REF" /\ right.type = "VALUE_CONSTANT"
        THEN UpdateFilterStatisticsColumnConstant(
                 m2, left.binding, comparison_type, right.value)
        ELSE IF left.type = "BOUND_COLUMN_REF" /\ right.type = "BOUND_COLUMN_REF"
        THEN IF left.binding \notin DOMAIN m2 \/ right.binding \notin DOMAIN m2
             THEN {Ok(m2)}
             ELSE UpdateFilterStatisticsColumns(m2, left.binding, right.binding,
                                                comparison_type)
        ELSE {Ok(m2)}

\* faulty variant: BETWEEN dispatches only its lower bound
UpdateFilterStatistics_LowerOnly(map, condition) ==
    CASE condition.class = "BOUND_BETWEEN" ->
           UpdateFilterStatisticsComparison(map, condition.input, condition.lower,
                                            LowerComparisonType(condition))
      [] condition.class = "BOUND_COMPARISON" ->
           UpdateFilterStatisticsComparison(map, condition.left, condition.right,
                                            condition.type)
      [] OTHER -> {Ok(map)}

\* UpdateFilterStatistics(Expression &condition); a debug abort in the lower
\* half of a BETWEEN ends the pass before the upper half
UpdateFilterStatistics(map, condition) ==
    CASE condition.class = "BOUND_BETWEEN" ->
           LET lower == UpdateFilterStatisticsComparison(
                            map, condition.input, condition.lower,
                            LowerComparisonType(condition))
           IN  {o \in lower : o.aborted} \cup
               UNION {UpdateFilterStatisticsComparison(
                          o.map, condition.input, condition.upper,
                          UpperComparisonType(condition)) :
                      o \in {x \in lower : ~x.aborted}}
      [] condition.class = "BOUND_COMPARISON" ->
           UpdateFilterStatisticsComparison(map, condition.left, condition.right,
                                            condition.type)
      [] OTHER -> {Ok(map)}

(***************************************************************************)
(* Plan nodes and the collaborators of the filter simplifier.              *)
(***************************************************************************)
PlanNode(t, cs) == [type |-> t, children |-> cs]

ChildNode == PlanNode("LOGICAL_GET", <<>>)

FilterNode(child) == PlanNode("LOGICAL_FILTER", <<child>>)

\* ReplaceWithEmptyResult(node): the slot holds a LogicalEmptyResult, the
\* subtree that was there is gone
ReplaceWithEmptyResult(node) == PlanNode("LOGICAL_EMPTY_RESULT", <<>>)

TrueConstant == Constant(ValueBOOLEAN(TRUE))

FalseConstant == Constant(ValueBOOLEAN(FALSE))

NullConstant == Constant(NullValue("BOOLEAN"))

ConstantOrNullFalse == Function("constant_or_null", ValueBOOLEAN(FALSE))

\* PropagateExpression(condition) may replace the predicate by what it
\* folds to; which predicates it folds is its own business
PropagateExpression(expr) ==
    IF expr.class = "BOUND_CONSTANT" THEN {expr}
    ELSE {expr, TrueConstant, FalseConstant, ConstantOrNullFalse}

\* what PropagateStatistics(filter.children[0]) may return
ChildNodeStatistics ==
    {NullNodeStatistics, NodeStatistics(0, 0), NodeStatistics(1000, 1000)}

(***************************************************************************)
(* State.                                                                  *)
(*   statistics_map  StatisticsPropagator::statistics_map                  *)
(*   node_stats      StatisticsPropagator::node_stats                      *)
(*   node_ptr        the plan subtree held by *node_ptr                    *)
(*   expressions     filter.expressions                                    *)
(*   i               the loop index of line 219 (0-based)                  *)
(*   pc              position in PropagateStatistics                       *)
(*   result          the returned NodeStatistics                           *)
(* History, read only by the properties:                                   *)
(*   ids             for each predicate still in the list, its position in *)
(*                   the original list (1-based)                           *)
(*   original        the predicate list the filter was called with         *)
(*   child_stats     what child propagation returned                       *)
(*   log             the calls made so far, each with the predicate it was *)
(*                   given and the statistics map before the call          *)
(***************************************************************************)
VARIABLES statistics_map, node_stats, node_ptr, expressions, i, pc, result,
          ids, original, child_stats, log

vars == <<statistics_map, node_stats, node_ptr, expressions, i, pc, result,
          ids, original, child_stats, log>>

Event(op, id, expr, map) == [op |-> op, id |-> id, expr |-> expr, map |-> map]

RemoveAt(seq, k) == [j \in 1..(Len(seq) - 1) |-> IF j < k THEN seq[j] ELSE seq[j + 1]]

\* idx_t arithmetic: i-- at 0 wraps to 2^64 - 1 and the i++ that follows wraps
\* back to 0; the wrapped value is written -1 here (the same bit pattern)
IdxDecrement(j) == j - 1

IdxIncrement(j) == j + 1

\* i < filter.expressions.size(), unsigned
IdxLess(j, n) == j >= 0 /\ j < n

\* the loop test of line 219
LoopTest(j, exprs) == IF IdxLess(j, Len(exprs)) THEN "propagate" ELSE "return"

(***************************************************************************)
(* Actions of PropagateStatistics(LogicalFilter &, node_ptr).              *)
(***************************************************************************)
\* lines 212-216: propagate to the child, which may have become the
\* zero-row sentinel
PropagateChild ==
    /\ pc = "start"
    /\ \E ns \in ChildNodeStatistics, rewritten \in BOOLEAN :
         LET child == IF rewritten
                      THEN ReplaceWithEmptyResult(node_ptr.children[1])
                      ELSE node_ptr.children[1]
         IN  /\ node_stats' = ns
             /\ child_stats' = ns
             /\ log' = Append(log, Event("child", 0, child, statistics_map))
             /\ IF child.type = "LOGICAL_EMPTY_RESULT"
                THEN /\ node_ptr' = ReplaceWithEmptyResult(node_ptr)
                     /\ result' = NodeStatistics(0, 0)
                     /\ pc' = "done"
                     /\ i' = i
                ELSE /\ node_ptr' = [node_ptr EXCEPT !.children[1] = child]
                     /\ result' = result
                     /\ i' = 0
                     /\ pc' = LoopTest(0, expressions)
    /\ UNCHANGED <<statistics_map, expressions, ids, original>>

\* lines 220-221
PropagateCondition ==
    /\ pc = "propagate"
    /\ \E folded \in PropagateExpression(expressions[i + 1]) :
         /\ expressions' = [expressions EXCEPT ![i + 1] = folded]
         /\ log' = Append(log, Event("propagate", ids[i + 1], folded,
                                     statistics_map))
    /\ pc' = "check"
    /\ UNCHANGED <<statistics_map, node_stats, node_ptr, i, result, ids,
                   original, child_stats>>

\* faulty variant: the index is not decremented after the erase
EraseCondition_NoDecrement ==
    /\ pc = "check"
    /\ ExpressionIsConstant(expressions[i + 1], ValueBOOLEAN(TRUE))
    /\ LET erased == RemoveAt(expressions, i + 1)
       IN  /\ expressions' = erased
           /\ ids' = RemoveAt(ids, i + 1)
           /\ IF Len(erased) = 0
              THEN /\ node_ptr' = node_ptr.children[1]
                   /\ i' = i
                   /\ pc' = "return"
              ELSE /\ node_ptr' = node_ptr
                   /\ i' = IdxIncrement(i)
                   /\ pc' = LoopTest(IdxIncrement(i), erased)
    /\ log' = Append(log, Event("erase", ids[i + 1], expressions[i + 1],
                                statistics_map))
    /\ UNCHANGED <<statistics_map, node_stats, result, original, child_stats>>

\* faulty variant: the filter is replaced by its child as soon as the last
\* condition of the list is erased, whatever conditions remain before it
EraseCondition_EagerRemoval ==
    /\ pc = "check"
    /\ ExpressionIsConstant(expressions[i + 1], ValueBOOLEAN(TRUE))
    /\ LET erased == RemoveAt(expressions, i + 1)
           j == IdxDecrement(i)
       IN  /\ expressions' = erased
           /\ ids' = RemoveAt(ids, i + 1)
           /\ IF ~IdxLess(IdxIncrement(j), Len(erased))
              THEN /\ node_ptr' = node_ptr.children[1]
                   /\ i' = j
                   /\ pc' = "return"
              ELSE /\ node_ptr' = node_ptr
                   /\ i' = IdxIncrement(j)
                   /\ pc' = LoopTest(IdxIncrement(j), erased)
    /\ log' = Append(log, Event("erase", ids[i + 1], expressions[i + 1],
                                statistics_map))
    /\ UNCHANGED <<statistics_map, node_stats, result, original, child_stats>>

\* lines 223-232: the condition is always true
EraseCondition ==
    /\ pc = "check"
    /\ ExpressionIsConstant(expressions[i + 1], ValueBOOLEAN(TRUE))
    /\ LET erased == RemoveAt(expressions, i + 1)
           j == IdxDecrement(i)
       IN  /\ expressions' = erased
           /\ ids' = RemoveAt(ids, i + 1)
           /\ IF Len(erased) = 0
              THEN /\ node_ptr' = node_ptr.children[1]
                   /\ i' = j
                   /\ pc' = "return"
              ELSE /\ node_ptr' = node_ptr
                   /\ i' = IdxIncrement(j)
                   /\ pc' = LoopTest(IdxIncrement(j), erased)
    /\ log' = Append(log, Event("erase", ids[i + 1], expressions[i + 1],
                                statistics_map))
    /\ UNCHANGED <<statistics_map, node_stats, result, original, child_stats>>

\* faulty variant: the filter is replaced but the loop goes on
EmptyResult_NoReturn ==
    /\ pc = "check"
    /\ ~ExpressionIsConstant(expressions[i + 1], ValueBOOLEAN(TRUE))
    /\ \/ ExpressionIsConstant(expressions[i + 1], ValueBOOLEAN(FALSE))
       \/ ExpressionIsConstantOrNull(expressions[i + 1], ValueBOOLEAN(FALSE))
    /\ node_ptr' = ReplaceWithEmptyResult(node_ptr)
    /\ result' = NodeStatistics(0, 0)
    /\ i' = IdxIncrement(i)
    /\ pc' = IF IdxLess(IdxIncrement(i), Len(expressions)) THEN "propagate"
             ELSE "done"
    /\ log' = Append(log, Event("empty", ids[i + 1], expressions[i + 1],
                                statistics_map))
    /\ UNCHANGED <<statistics_map, node_stats, expressions, ids, original,
                   child_stats>>

\* lines 233-237: the condition is always false or null
EmptyResult ==
    /\ pc = "check"
    /\ ~ExpressionIsConstant(expressions[i + 1], ValueBOOLEAN(TRUE))
    /\ \/ ExpressionIsConstant(expressions[i + 1], ValueBOOLEAN(FALSE))
       \/ ExpressionIsConstantOrNull(expressions[i + 1], ValueBOOLEAN(FALSE))
    /\ node_ptr' = ReplaceWithEmptyResult(node_ptr)
    /\ result' = NodeStatistics(0, 0)
    /\ pc' = "done"
    /\ log' = Append(log, Event("empty", ids[i + 1], expressions[i + 1],
                                statistics_map))
    /\ UNCHANGED <<statistics_map, node_stats, expressions, i, ids, original,
                   child_stats>>

\* lines 238-241: the condition cannot be pruned
UpdateStatistics ==
    /\ pc = "check"
    /\ ~ExpressionIsConstant(expressions[i + 1], ValueBOOLEAN(TRUE))
    /\ ~ExpressionIsConstant(expressions[i + 1], ValueBOOLEAN(FALSE))
    /\ ~ExpressionIsConstantOrNull(expressions[i + 1], ValueBOOLEAN(FALSE))
    /\ \E o \in UpdateFilterStatistics(statistics_map, expressions[i + 1]) :
         /\ statistics_map' = o.map
         /\ IF o.aborted
            THEN /\ pc' = "abort"
                 /\ i' = i
            ELSE /\ i' = IdxIncrement(i)
                 /\ pc' = LoopTest(IdxIncrement(i), expressions)
    /\ log' = Append(log, Event("update", ids[i + 1], expressions[i + 1],
                                statistics_map))
    /\ UNCHANGED <<node_stats, node_ptr, expressions, result, ids, original,
                   child_stats>>

\* faulty variant: a surviving filter reports an empty result
ReturnNodeStats_Zero ==
    /\ pc = "return"
    /\ result' = NodeStatistics(0, 0)
    /\ node_stats' = NullNodeStatistics
    /\ pc' = "done"
    /\ UNCHANGED <<statistics_map, node_ptr, expressions, i, ids, original,
                   child_stats, log>>

\* line 244
ReturnNodeStats ==
    /\ pc = "return"
    /\ result' = node_stats
    /\ node_stats' = NullNodeStatistics
    /\ pc' = "done"
    /\ UNCHANGED <<statistics_map, node_ptr, expressions, i, ids, original,
                   child_stats, log>>

(***************************************************************************)
(* Inputs of the filter simplifier: the statistics map left by child       *)
(* propagation and the predicate list of the filter.                       *)
(***************************************************************************)
Col0 == ColumnRef(<<0, 0>>)

Col1 == ColumnRef(<<0, 1>>)

Integer(x) == Value("INTEGER", x)

\* an operand that is neither a column reference nor a constant
OtherOperand == Function("abs", NullValue("INTEGER"))

FilterMaps ==
    {(<<0, 0>> :> NumericStatistics("INTEGER", TRUE, Integer(0), Integer(100))) @@
     (<<0, 1>> :> NumericStatistics("INTEGER", TRUE, Integer(50), Integer(200))),
     (<<0, 0>> :> NumericStatistics("INTEGER", TRUE, Integer(0), Integer(100)))}

FilterPredicates ==
    {TrueConstant, FalseConstant, NullConstant, ConstantOrNullFalse,
     Comparison(Col0, Constant(Integer(50)), "COMPARE_GREATERTHAN"),
     Comparison(Col0, Col1, "COMPARE_LESSTHAN"),
     Between(Col0, Constant(Integer(10)), Constant(Integer(20)), TRUE, TRUE)}

\* all predicate lists of at most n predicates
PredicateLists(n) ==
    UNION {[1..k -> FilterPredicates] : k \in 0..n}

Init ==
    /\ statistics_map \in FilterMaps
    /\ expressions \in PredicateLists(MaxPreds)
    /\ original = expressions
    /\ ids = [k \in 1..Len(expressions) |-> k]
    /\ node_ptr = FilterNode(ChildNode)
    /\ node_stats = NullNodeStatistics
    /\ result = NullNodeStatistics
    /\ child_stats = NullNodeStatistics
    /\ i = 0
    /\ pc = "start"
    /\ log = <<>>

Next ==
    \/ PropagateChild
    \/ PropagateCondition
    \/ EraseCondition
    \/ EmptyResult
    \/ UpdateStatistics
    \/ ReturnNodeStats

Spec == Init /\ [][Next]_vars

(***************************************************************************)
(* The narrower on its own: UpdateFilterStatistics(condition) is applied   *)
(* at line 240 to one surviving predicate, for every statistics map and    *)
(* every condition of the sets below.                                      *)
(***************************************************************************)
Integers0 == {Integer(x) : x \in 0..MaxVal}

\* the ranges min <= max
IntegerRanges == {r \in Integers0 \X Integers0 : r[1].v <= r[2].v}

\* entries of the first column: every INTEGER range, missing bounds, a
\* non-numeric column
Col0Entries ==
    {NumericStatistics("INTEGER", hn, r[1], r[2]) :
        hn \in BOOLEAN, r \in IntegerRanges}
    \cup {NumericStatistics("INTEGER", hn, NullValue("INTEGER"),
                            NullValue("INTEGER")) : hn \in BOOLEAN}
    \cup {NumericStatistics("INTEGER", TRUE, NullValue("INTEGER"), Integer(1)),
          NumericStatistics("INTEGER", TRUE, Integer(1), NullValue("INTEGER")),
          BaseStatistics("VARCHAR", TRUE)}

\* entries of the second column
Col1Entries ==
    {NumericStatistics("INTEGER", TRUE, r[1], r[2]) : r \in IntegerRanges}
    \cup {NumericStatistics("INTEGER", TRUE, NullValue("INTEGER"),
                            NullValue("INTEGER")),
          NumericStatistics("BIGINT", TRUE, Value("BIGINT", 0),
                            Value("BIGINT", MaxVal)),
          BaseStatistics("VARCHAR", TRUE)}

\* a binding may have no entry
NarrowMaps ==
    {(<<0, 0>> :> a) @@ (<<0, 1>> :> b) : a \in Col0Entries, b \in Col1Entries}
    \cup {(<<0, 0>> :> a) : a \in Col0Entries}
    \cup {(<<0, 1>> :> b) : b \in Col1Entries}
    \cup {<<>>}

NarrowConstants ==
    {Constant(c) : c \in Integers0}
    \cup {Constant(NullValue("INTEGER")), Constant(Value("BIGINT", 1))}

NarrowConditions ==
    {Comparison(Col0, c, t) : c \in NarrowConstants, t \in ComparisonTypes}
    \cup {Comparison(Constant(c), Col0, t) : c \in Integers0, t \in ComparisonTypes}
    \cup {Comparison(l, r, t) :
            l \in {Col0, Col1}, r \in {Col0, Col1}, t \in ComparisonTypes}
    \cup {Comparison(Col0, OtherOperand, "COMPARE_EQUAL"),
          Comparison(OtherOperand, Col1, "COMPARE_LESSTHAN"),
          Comparison(OtherOperand, OtherOperand, "COMPARE_GREATERTHAN"),
          Comparison(Constant(Integer(0)), Constant(Integer(1)), "COMPARE_LESSTHAN")}
    \cup {Between(Col0, Constant(lo), Constant(hi), incl, incl) :
            lo \in Integers0, hi \in Integers0, incl \in BOOLEAN}
    \cup {Between(Col0, Constant(NullValue("INTEGER")), Constant(Integer(1)),
                  TRUE, TRUE),
          Between(Col0, Col1, Constant(Integer(MaxVal)), TRUE, FALSE),
          Between(Constant(Integer(1)), Col0, Col1, FALSE, TRUE),
          Between(Col0, OtherOperand, Col1, TRUE, TRUE)}

\* the filter holds one predicate, which PropagateExpression left as it is
InitNarrow ==
    /\ statistics_map \in NarrowMaps
    /\ \E condition \in NarrowConditions :
         /\ expressions = <<condition>>
         /\ original = <<condition>>
         /\ log = <<Event("child", 0, ChildNode, statistics_map),
                    Event("propagate", 1, condition, statistics_map)>>
    /\ ids = <<1>>
    /\ node_ptr = FilterNode(ChildNode)
    /\ node_stats = NodeStatistics(1000, 1000)
    /\ child_stats = NodeStatistics(1000, 1000)
    /\ result = NullNodeStatistics
    /\ i = 0
    /\ pc = "check"

NextNarrow ==
    \/ UpdateStatistics
    \/ ReturnNodeStats

SpecNarrow == InitNarrow /\ [][NextNarrow]_vars

(***************************************************************************)
(* Vocabulary of the properties.                                           *)
(***************************************************************************)
EmptyResultNode == PlanNode("LOGICAL_EMPTY_RESULT", <<>>)

\* the predicate is literal TRUE
IsTrueFold(e) == e = TrueConstant

\* the predicate is literal FALSE or constant-or-null FALSE
IsFalseFold(e) == e = FalseConstant \/ e = ConstantOrNullFalse

IsPropagate(e) == e.op = "propagate"

NotTrueFold(e) == ~IsTrueFold(e)

\* the predicates as expression propagation left them, in the order examined
Folds == SelectSeq(log, IsPropagate)

AllFoldTrue ==
    /\ Len(Folds) = Len(original)
    /\ \A k \in 1..Len(Folds) : IsTrueFold(Folds[k].expr)

\* the child was propagated and is not the zero-row sentinel
ChildSurvived ==
    /\ Len(log) >= 1
    /\ log[1].op = "child"
    /\ log[1].expr.type # "LOGICAL_EMPTY_RESULT"

\* the last call made is UpdateFilterStatistics(condition); Cond is the
\* condition, Before the statistics map it was given
Updated == Len(log) >= 1 /\ log[Len(log)].op = "update"

Cond == log[Len(log)].expr

Before == log[Len(log)].map

IsColumn(e) == e.type = "BOUND_COLUMN_REF"

IsConstant(e) == e.type = "VALUE_CONSTANT"

\* the binding has a numeric entry with both bounds recorded
HasBounds(m, b) ==
    /\ b \in DOMAIN m
    /\ IsNumeric(m[b].type)
    /\ ~IsNull(m[b].min)
    /\ ~IsNull(m[b].max)

\* x lies inside the range of a numeric entry with both bounds
InRange(x, e) == e.min.v <= x /\ x <= e.max.v

RangeOf(e) == e.min.v .. e.max.v

\* the truth of x op y
ComparisonHolds(x, t, y) ==
    CASE t = "COMPARE_LESSTHAN" -> x < y
      [] t = "COMPARE_LESSTHANOREQUALTO" -> x <= y
      [] t = "COMPARE_GREATERTHAN" -> x > y
      [] t = "COMPARE_GREATERTHANOREQUALTO" -> x >= y
      [] t = "COMPARE_EQUAL" -> x = y
      [] OTHER -> FALSE

NarrowingTypes == LessThanTypes \cup GreaterThanTypes \cup {"COMPARE_EQUAL"}

\* every entry with both bounds has min <= max
RangesOrdered(m) ==
    \A b \in DOMAIN m : HasBounds(m, b) => m[b].min.v <= m[b].max.v

\* every range of m2 lies inside the range the binding had in m1
RangesContained(m2, m1) ==
    \A b \in DOMAIN m1 :
        (HasBounds(m1, b) /\ HasBounds(m2, b)) =>
            /\ m2[b].min.v >= m1[b].min.v
            /\ m2[b].max.v <= m1[b].max.v

\* a comparison of a column that has both bounds with a constant within
\* them, or of two columns with both bounds whose ranges overlap
WithinRanges(m, left, right) ==
    \/ /\ IsColumn(left) /\ IsConstant(right)
       /\ HasBounds(m, left.binding)
       /\ ~IsNull(right.value)
       /\ InRange(right.value.v, m[left.binding])
    \/ /\ IsConstant(left) /\ IsColumn(right)
       /\ HasBounds(m, right.binding)
       /\ ~IsNull(left.value)
       /\ InRange(left.value.v, m[right.binding])
    \/ /\ IsColumn(left) /\ IsColumn(right)
       /\ HasBounds(m, left.binding)
       /\ HasBounds(m, right.binding)
       /\ m[left.binding].min.v <= m[right.binding].max.v
       /\ m[right.binding].min.v <= m[left.binding].max.v

\* col BETWEEN lo AND hi with constants lo and hi that are not NULL
ConstantBetween(e) ==
    /\ e.class = "BOUND_BETWEEN"
    /\ IsColumn(e.input) /\ IsConstant(e.lower) /\ IsConstant(e.upper)
    /\ ~IsNull(e.lower.value) /\ ~IsNull(e.upper.value)

(***************************************************************************)
(* Properties of PropagateStatistics(filter), checked under Spec.          *)
(***************************************************************************)
\* C1: once the filter is proved to yield no rows - the child is the zero-row
\* sentinel, or a predicate folded to FALSE or to constant-or-null FALSE and
\* its check was made - the call has returned NodeStatistics(0, 0), the slot
\* holds the zero-row sentinel, no later predicate was propagated or used for
\* narrowing, and the statistics map is as it was at that point.
C1_ZeroRowsShortCircuit ==
    \A k \in 1..Len(log) :
        (\/ (log[k].op = "child" /\ log[k].expr.type = "LOGICAL_EMPTY_RESULT")
         \/ (log[k].op = "propagate" /\ IsFalseFold(log[k].expr)
             /\ (k < Len(log) \/ pc # "check")))
        => /\ pc = "done"
           /\ node_ptr = EmptyResultNode
           /\ result = NodeStatistics(0, 0)
           /\ statistics_map = log[k].map
           /\ \A j \in (k + 1)..Len(log) :
                 log[j].op = "empty" /\ log[j].id = log[k].id

\* a predicate that is not the last folded to FALSE after an earlier one
\* narrowed the statistics, and the call returned
C1_Witness ==
    /\ pc = "done"
    /\ \E k \in 1..Len(log) :
         /\ log[k].op = "propagate"
         /\ IsFalseFold(log[k].expr)
         /\ log[k].id > 1
         /\ log[k].id < Len(original)
         /\ log[k].map # log[1].map

\* C2: for a filter with a surviving child and a non-empty predicate list,
\* the slot ends up holding the child itself (no predicate left) exactly when
\* every predicate folded to literal TRUE; otherwise, unless the filter
\* collapsed to the zero-row sentinel, the slot holds the filter with its
\* child attached.
C2_FilterRemovedIffAllTrue ==
    (pc = "done" /\ ChildSurvived /\ Len(original) > 0) =>
        /\ (node_ptr = ChildNode) <=> AllFoldTrue
        /\ AllFoldTrue => Len(expressions) = 0
        /\ (~AllFoldTrue /\ node_ptr # EmptyResultNode) =>
              /\ node_ptr = FilterNode(ChildNode)
              /\ Len(expressions) > 0

\* three predicates, not all literal TRUE to begin with, all folded to TRUE:
\* the slot holds the child
C2_Witness ==
    /\ pc = "done"
    /\ node_ptr = ChildNode
    /\ Len(original) >= 2
    /\ \E k \in 1..Len(original) : ~IsTrueFold(original[k])

\* C3: a filter that is not rewritten into the zero-row sentinel returns
\* exactly the NodeStatistics child propagation returned.
C3_CardinalityInherited ==
    (pc = "done" /\ node_ptr # EmptyResultNode) => result = child_stats

\* a surviving filter narrowed the statistics and returned the child's bound
C3_Witness ==
    /\ pc = "done"
    /\ node_ptr = FilterNode(ChildNode)
    /\ result = NodeStatistics(1000, 1000)
    /\ statistics_map # log[1].map

\* C10: in a run that does not collapse, every predicate of the original list
\* is examined exactly once and in order; each examination is followed at
\* once by the erase of that predicate (if it folded to TRUE) or by its
\* narrowing, whose result is the statistics map the next predicate is
\* examined with; and the predicates left are the ones that did not fold to
\* TRUE, in their original order.
C10_EveryPredicateInOrder ==
    (pc = "done" /\ ChildSurvived /\ node_ptr # EmptyResultNode) =>
        /\ Len(Folds) = Len(original)
        /\ \A k \in 1..Len(Folds) : Folds[k].id = k
        /\ \A k \in 1..Len(log) :
              log[k].op = "propagate" =>
                 /\ k < Len(log)
                 /\ log[k + 1].id = log[k].id
                 /\ log[k + 1].expr = log[k].expr
                 /\ log[k + 1].map = log[k].map
                 /\ log[k + 1].op = IF IsTrueFold(log[k].expr) THEN "erase"
                                    ELSE "update"
        /\ \A k \in 1..Len(log) :
              log[k].op = "update" =>
                 LET after == IF k < Len(log) THEN log[k + 1].map
                              ELSE statistics_map
                 IN  Ok(after) \in UpdateFilterStatistics(log[k].map, log[k].expr)
        /\ \A k \in 1..Len(log) :
              (log[k].op = "erase" /\ k < Len(log)) => log[k + 1].map = log[k].map
        /\ expressions = SelectSeq([k \in 1..Len(Folds) |-> Folds[k].expr],
                                   NotTrueFold)
        /\ ids = SelectSeq([k \in 1..Len(Folds) |-> k],
                           LAMBDA k : NotTrueFold(Folds[k].expr))

\* the first predicate was erased, a later one narrowed the statistics and
\* the filter survived
C10_Witness ==
    /\ pc = "done"
    /\ node_ptr = FilterNode(ChildNode)
    /\ Len(original) >= 3
    /\ IsTrueFold(Folds[1].expr)
    /\ Len(expressions) >= 2
    /\ statistics_map # log[1].map

(***************************************************************************)
(* Properties of UpdateFilterStatistics(condition), checked under          *)
(* SpecNarrow: Cond was dispatched on the map Before and statistics_map is *)
(* what it left.                                                           *)
(***************************************************************************)
\* C4: narrowing keeps every value that can pass the comparison.  For a
\* column with both bounds compared with a constant (either operand order)
\* by <, <=, >, >= or =, every value of the prior range for which the
\* comparison is true lies in the new range; for two columns, every pair of
\* values of the prior ranges for which the comparison is true lies in the
\* new ranges.
C4_NarrowingKeepsPassingValues ==
    (Updated /\ Cond.class = "BOUND_COMPARISON" /\ Cond.type \in NarrowingTypes) =>
        LET l == Cond.left
            r == Cond.right
        IN  /\ (IsColumn(l) /\ IsConstant(r) /\ HasBounds(Before, l.binding)
                /\ ~IsNull(r.value)) =>
                  \A x \in RangeOf(Before[l.binding]) :
                     ComparisonHolds(x, Cond.type, r.value.v) =>
                        /\ HasBounds(statistics_map, l.binding)
                        /\ InRange(x, statistics_map[l.binding])
            /\ (IsConstant(l) /\ IsColumn(r) /\ HasBounds(Before, r.binding)
                /\ ~IsNull(l.value)) =>
                  \A y \in RangeOf(Before[r.binding]) :
                     ComparisonHolds(l.value.v, Cond.type, y) =>
                        /\ HasBounds(statistics_map, r.binding)
                        /\ InRange(y, statistics_map[r.binding])
            /\ (IsColumn(l) /\ IsColumn(r) /\ HasBounds(Before, l.binding)
                /\ HasBounds(Before, r.binding)) =>
                  \A x \in RangeOf(Before[l.binding]),
                     y \in RangeOf(Before[r.binding]) :
                     ComparisonHolds(x, Cond.type, y) =>
                        /\ HasBounds(statistics_map, l.binding)
                        /\ HasBounds(statistics_map, r.binding)
                        /\ InRange(x, statistics_map[l.binding])
                        /\ InRange(y, statistics_map[r.binding])

\* a comparison of two columns tightened both, and a pair of values passes
C4_Witness ==
    /\ Updated
    /\ Cond = Comparison(Col0, Col1, "COMPARE_GREATERTHANOREQUALTO")
    /\ HasBounds(Before, <<0, 0>>) /\ HasBounds(Before, <<0, 1>>)
    /\ statistics_map[<<0, 0>>].min.v > Before[<<0, 0>>].min.v
    /\ statistics_map[<<0, 1>>].max.v < Before[<<0, 1>>].max.v
    /\ \E x \in RangeOf(Before[<<0, 0>>]), y \in RangeOf(Before[<<0, 1>>]) : x >= y

C6_Original_OnlyTightens == Updated => RangesContained(statistics_map, Before)

\* C6 amended: a comparison leaves every range inside the prior range when
\* its constant lies within the column's prior range, and always when it
\* compares two columns; col BETWEEN lo AND hi on a column with both bounds
\* sets min to lo and max to hi, whatever the prior bounds were.
C6_TightensWithinRanges ==
    Updated =>
        /\ (Cond.class = "BOUND_COMPARISON"
            /\ WithinRanges(Before, Cond.left, Cond.right))
              => RangesContained(statistics_map, Before)
        /\ (Cond.class = "BOUND_COMPARISON" /\ IsColumn(Cond.left)
            /\ IsColumn(Cond.right))
              => RangesContained(statistics_map, Before)
        /\ (ConstantBetween(Cond) /\ HasBounds(Before, Cond.input.binding)) =>
              /\ statistics_map[Cond.input.binding].min = Cond.lower.value
              /\ statistics_map[Cond.input.binding].max = Cond.upper.value

\* col BETWEEN lo AND hi moved both bounds inwards
C6_Witness ==
    /\ Updated
    /\ ConstantBetween(Cond)
    /\ HasBounds(Before, Cond.input.binding)
    /\ Cond.lower.value.v > Before[Cond.input.binding].min.v
    /\ Cond.upper.value.v < Before[Cond.input.binding].max.v
    /\ statistics_map[Cond.input.binding].min = Cond.lower.value
    /\ statistics_map[Cond.input.binding].max = Cond.upper.value

\* a numeric column with an entry that lacks min or max is compared with a
\* constant
MissingBoundCase(b) ==
    /\ Updated
    /\ Cond.class = "BOUND_COMPARISON"
    /\ \/ (IsColumn(Cond.left) /\ IsConstant(Cond.right) /\ Cond.left.binding = b)
       \/ (IsConstant(Cond.left) /\ IsColumn(Cond.right) /\ Cond.right.binding = b)
    /\ b \in DOMAIN Before
    /\ IsNumeric(Before[b].type)
    /\ (IsNull(Before[b].min) \/ IsNull(Before[b].max))

\* C7 as stated: the entry after the call equals the entry before it.
C7_Original_EntryUnchanged ==
    \A b \in Bindings : MissingBoundCase(b) => statistics_map[b] = Before[b]

\* C7 amended: min, max and type are unchanged; the entry is marked non-null.
C7_BoundsUnchangedMarkedNonNull ==
    \A b \in Bindings :
        MissingBoundCase(b) =>
            statistics_map[b] = [Before[b] EXCEPT !.has_null = FALSE]

\* a nullable column with min but no max was compared with a constant
C7_Witness ==
    /\ MissingBoundCase(<<0, 0>>)
    /\ Cond.type = "COMPARE_LESSTHAN"
    /\ IsConstant(Cond.right) /\ ~IsNull(Cond.right.value)
    /\ ~IsNull(Before[<<0, 0>>].min)
    /\ Before[<<0, 0>>].has_null
    /\ ~statistics_map[<<0, 0>>].has_null

\* the operands of the comparisons UpdateFilterStatistics dispatched: both
\* operands of a comparison; of a BETWEEN the input and the lower bound, and
\* the upper bound unless the lower half aborted the pass
DispatchedOperands ==
    CASE Cond.class = "BOUND_COMPARISON" -> {Cond.left, Cond.right}
      [] Cond.class = "BOUND_BETWEEN" ->
           {Cond.input, Cond.lower} \cup
           (IF pc = "abort" THEN {} ELSE {Cond.upper})
      [] OTHER -> {}

\* C8: after a comparison (or a half of a BETWEEN) is dispatched, every
\* operand that is a column reference with an entry is marked non-null,
\* whatever the other operand, the comparator, the column's type and bounds;
\* the bindings that have an entry are the same as before.
C8_ColumnOperandsNonNull ==
    Updated =>
        /\ DOMAIN statistics_map = DOMAIN Before
        /\ \A e \in DispatchedOperands :
              (IsColumn(e) /\ e.binding \in DOMAIN Before) =>
                  ~statistics_map[e.binding].has_null

\* a nullable non-numeric column compared with an unsupported operand, the
\* other binding without an entry
C8_Witness ==
    /\ Updated
    /\ Cond = Comparison(Col0, OtherOperand, "COMPARE_EQUAL")
    /\ DOMAIN Before = {<<0, 0>>}
    /\ Before[<<0, 0>>].type = "VARCHAR"
    /\ Before[<<0, 0>>].has_null
    /\ ~statistics_map[<<0, 0>>].has_null

\* C9 as stated: a comparison of a numeric column with a constant of another
\* type aborts the pass, and the constant is not written into min or max.
C9_MismatchedConstantAborts ==
    \A b \in Bindings :
        (/\ Updated
         /\ Cond.class = "BOUND_COMPARISON"
         /\ IsColumn(Cond.left) /\ IsConstant(Cond.right)
         /\ Cond.left.binding = b
         /\ b \in DOMAIN Before
         /\ IsNumeric(Before[b].type)
         /\ Cond.right.value.type # Before[b].type)
        => /\ pc = "abort"
           /\ statistics_map[b].min # Cond.right.value
           /\ statistics_map[b].max # Cond.right.value

====
